---- MODULE Spec2Model ----
(***************************************************************************)
(* xml-watcher (src/src/main.rs): a directory watcher that forwards        *)
(* creation events for .xml files to a webhook and optionally overwrites   *)
(* the file with the response, guarding itself with a time-boxed ignore    *)
(* list.  Strings are sequences of one-character strings so that the       *)
(* string functions of the source are computed, not assumed.               *)
(***************************************************************************)
EXTENDS Integers, Sequences, FiniteSets, Bags, TLC

(***************************************************************************)
(* Bounds of the model.                                                    *)
(***************************************************************************)
\* number of spawned tasks (deliveries and deferred removals) alive at once
MaxTasks == 2
\* number of events waiting in the channel
MaxQueue == 1
\* number of paths carried by one event
MaxPaths == 2

(***************************************************************************)
(* Program constants.                                                      *)
(***************************************************************************)
IGNORE_DURATION_SECS == 2
\* one tick of the model's clock is one second
IgnoreTicks == IGNORE_DURATION_SECS

(***************************************************************************)
(* Strings.                                                                *)
(***************************************************************************)
Lowers == <<"a", "b", "c", "d", "e", "f", "g", "h", "i", "j", "k", "l", "m",
            "n", "o", "p", "q", "r", "s", "t", "u", "v", "w", "x", "y", "z">>
Uppers == <<"A", "B", "C", "D", "E", "F", "G", "H", "I", "J", "K", "L", "M",
            "N", "O", "P", "Q", "R", "S", "T", "U", "V", "W", "X", "Y", "Z">>

ToUpperChar(c) ==
    IF \E i \in 1..Len(Lowers) : Lowers[i] = c
    THEN Uppers[CHOOSE i \in 1..Len(Lowers) : Lowers[i] = c]
    ELSE c

ToLowerChar(c) ==
    IF \E i \in 1..Len(Uppers) : Uppers[i] = c
    THEN Lowers[CHOOSE i \in 1..Len(Uppers) : Uppers[i] = c]
    ELSE c

\* str::to_uppercase
to_uppercase(s) == [i \in 1..Len(s) |-> ToUpperChar(s[i])]

\* str::to_lowercase
to_lowercase(s) == [i \in 1..Len(s) |-> ToLowerChar(s[i])]

\* str::eq_ignore_ascii_case: same length, bytes equal after ASCII lower-casing
eq_ignore_ascii_case(a, b) ==
    /\ Len(a) = Len(b)
    /\ \A i \in 1..Len(a) : ToLowerChar(a[i]) = ToLowerChar(b[i])

\* str::starts_with
starts_with(s, prefix) ==
    /\ Len(s) >= Len(prefix)
    /\ SubSeq(s, 1, Len(prefix)) = prefix

\* position of the last occurrence of c in s, 0 when there is none
LastIndexOf(s, c) ==
    IF \E i \in 1..Len(s) : s[i] = c
    THEN CHOOSE i \in 1..Len(s) : s[i] = c /\ \A j \in (i + 1)..Len(s) : s[j] # c
    ELSE 0

\* absent Option value
None == <<"None">>

\* Path::file_name: the final component of the path
file_name(path) ==
    LET k == LastIndexOf(path, "/")
        name == SubSeq(path, k + 1, Len(path))
    IN  IF name = <<>> \/ name = <<".", ".">> THEN None ELSE name

\* extension taking a name that starts with its only dot as all extension
extension_LeadingDot(path) ==
    LET name == file_name(path)
    IN  IF name = None THEN None
        ELSE LET d == LastIndexOf(name, ".")
             IN  IF d < 1 THEN None ELSE SubSeq(name, d + 1, Len(name))

\* Path::extension: the part of the file name after its last dot; None when
\* there is no dot or when the only dot starts the name
extension(path) ==
    LET name == file_name(path)
    IN  IF name = None THEN None
        ELSE LET d == LastIndexOf(name, ".")
             IN  IF d <= 1 THEN None ELSE SubSeq(name, d + 1, Len(name))

XML == <<"x", "m", "l">>

is_xml_file(path) ==
    LET ext == extension(path)
    IN  IF ext = None THEN FALSE ELSE eq_ignore_ascii_case(ext, XML)

(***************************************************************************)
(* The watched directory: names and kinds of its entries.                  *)
(***************************************************************************)
A_XML == <<"a", ".", "x", "m", "l">>
B_XML == <<"s", "/", "b", ".", "X", "m", "L">>
C_TXT == <<"c", ".", "t", "x", "t">>
DOT_XML == <<".", "x", "m", "l">>
D_XML == <<"d", ".", "x", "m", "l">>
G_XML == <<"g", ".", "x", "m", "l">>
NOEXT == <<"x", ".", "d", "/", "e">>

Paths == {A_XML, B_XML, C_TXT, DOT_XML, D_XML, G_XML, NOEXT}

ORIG == <<"<", "a", "/", ">">>
OK_BODY == <<"<", "o", "k", "/", ">">>
EMPTY == <<>>

\* a regular file with its data, a directory, or no entry at all
RegularFile(data) == [kind |-> "file", data |-> data]
Directory == [kind |-> "dir", data |-> EMPTY]
Absent == [kind |-> "absent", data |-> EMPTY]

\* Path::is_file
is_file(fs, path) == fs[path].kind = "file"

\* is_xml_file over the paths of the model, computed once
IsXmlFile == [path \in Paths |-> is_xml_file(path)]

(***************************************************************************)
(* HTTP.                                                                   *)
(***************************************************************************)
GET == <<"G", "E", "T">>
PUT == <<"P", "U", "T">>
PATCH == <<"P", "A", "T", "C", "H">>
DELETE == <<"D", "E", "L", "E", "T", "E">>
POST == <<"P", "O", "S", "T">>

Methods == { GET, <<"g", "e", "t">>, <<"P", "u", "t">>,
             <<"p", "A", "t", "C", "h">>, <<"d", "e", "l", "e", "t", "e">>,
             POST, <<"p", "o", "s", "t">>, <<"P", "o", "s", "t">>,
             <<"b", "o", "g", "u", "s">>, <<>> }

TEXT_XML == <<"t", "e", "x", "t", "/", "x", "m", "l">>
APPLICATION_XML == <<"a", "p", "p", "l", "i", "c", "a", "t", "i", "o", "n",
                     "/", "x", "m", "l">>
APPLICATION_XML_UTF8 == APPLICATION_XML \o
    <<";", " ", "c", "h", "a", "r", "s", "e", "t", "=", "u", "t", "f", "-", "8">>
TEXT_PLAIN == <<"t", "e", "x", "t", "/", "p", "l", "a", "i", "n">>
TEXT_XML_UPPER == <<"T", "e", "x", "t", "/", "X", "M", "L">>

\* values of the response's content-type header; EMPTY is a missing header
ContentTypes == {TEXT_XML, APPLICATION_XML_UTF8, TEXT_PLAIN, TEXT_XML_UPPER, EMPTY}
StatusCodes == {200, 204, 304, 404}
Bodies == {EMPTY, OK_BODY}

\* StatusCode::is_success
is_success(status) == status >= 200 /\ status < 300

\* RequestVerb without the upper-casing
RequestVerb_CaseSensitive(method) ==
    IF method = GET THEN "GET"
    ELSE IF method = PUT THEN "PUT"
    ELSE IF method = PATCH THEN "PATCH"
    ELSE IF method = DELETE THEN "DELETE"
    ELSE "POST"

\* the verb chosen for the request from config.webhook_method
RequestVerb(method) ==
    LET m == to_uppercase(method)
    IN  IF m = GET THEN "GET"
        ELSE IF m = PUT THEN "PUT"
        ELSE IF m = PATCH THEN "PATCH"
        ELSE IF m = DELETE THEN "DELETE"
        ELSE "POST"

\* should_overwrite_with_response without the include_content test
should_overwrite_FlagOnly(cfg) == cfg.overwrite_with_response

should_overwrite_with_response(cfg) ==
    cfg.overwrite_with_response /\ cfg.include_content

\* is_xml taking any text/ type
is_xml_AnyText(content_type) ==
    starts_with(content_type, <<"t", "e", "x", "t", "/">>)
        \/ starts_with(content_type, APPLICATION_XML)

is_xml(content_type) ==
    starts_with(content_type, TEXT_XML) \/ starts_with(content_type, APPLICATION_XML)

(***************************************************************************)
(* State.                                                                  *)
(***************************************************************************)
VARIABLES
    env,          \* the environment the process was started in
    config,       \* the Config value built at startup
    files,        \* the watched directory: path -> entry
    queue,        \* events sent by the watcher callback, not yet received
    disp,         \* the dispatch loop of main: position and paths left
    ignore_list,  \* the HashSet<PathBuf> behind the mutex
    lock,         \* who holds the mutex of ignore_list
    tasks         \* the bag of spawned tasks that have not ended

vars == <<env, config, files, queue, disp, ignore_list, lock, tasks>>

EventKinds == {"Create", "Modify", "Remove", "Access"}

\* sequences of 1..n paths over the set ps
RECURSIVE PathSeqs(_, _)
PathSeqs(ps, n) ==
    IF n = 0 THEN {}
    ELSE {<<p>> : p \in ps} \cup
         {Append(s, p) : s \in PathSeqs(ps, n - 1), p \in ps}

NoResponse == [status |-> 0, content_type |-> EMPTY]

\* the task spawned by the dispatch loop, in its settle delay.  A task is
\* its position and locals, and what it has done so far: requests sent and
\* their verb, whether it inserted its path, the state of its file write
\* and the seconds since that write returned (up to IgnoreTicks)
NewDelivery(path) ==
    [pc |-> "settle", path |-> path, content |-> None,
     requests |-> 0, verb |-> "", response |-> NoResponse, body |-> EMPTY,
     inserted |-> FALSE, wstate |-> "none", wage |-> 0, timer |-> 0]

Configs ==
    [webhook_method : Methods, include_content : BOOLEAN,
     overwrite_with_response : BOOLEAN]

(***************************************************************************)
(* The environment of the process and Config::from_env.                    *)
(***************************************************************************)
URL == <<"h", ":", "/", "/", "w">>
TRUE_STR == <<"t", "r", "u", "e">>
FALSE_STR == <<"f", "a", "l", "s", "e">>

\* env::var(name).unwrap_or_else(|_| default): None is a variable not set
unwrap_or(v, default) == IF v = None THEN default ELSE v

Ok(v) == [Ok |-> v]
Err(e) == [Err |-> e]
is_err(res) == "Err" \in DOMAIN res

\* from_env falling back to a default when WEBHOOK_URL is not set
from_env_DefaultUrl(e) ==
    Ok([webhook_method |-> unwrap_or(e.WEBHOOK_METHOD, POST),
        include_content |->
            to_lowercase(unwrap_or(e.INCLUDE_CONTENT, FALSE_STR)) = TRUE_STR,
        overwrite_with_response |->
            to_lowercase(unwrap_or(e.OVERWRITE_WITH_RESPONSE, FALSE_STR))
                = TRUE_STR])

\* Config::from_env
from_env(e) ==
    IF e.WEBHOOK_URL = None
    THEN Err("WEBHOOK_URL environment variable is required")
    ELSE Ok([webhook_method |-> unwrap_or(e.WEBHOOK_METHOD, POST),
             include_content |->
                 to_lowercase(unwrap_or(e.INCLUDE_CONTENT, FALSE_STR)) = TRUE_STR,
             overwrite_with_response |->
                 to_lowercase(unwrap_or(e.OVERWRITE_WITH_RESPONSE, FALSE_STR))
                     = TRUE_STR])

\* the environments a process is started in: the variables read by from_env,
\* whether the watch directory exists, and whether the operating system lets
\* a watcher be created and attached
Envs ==
    [WEBHOOK_URL : {None, EMPTY, URL},
     WEBHOOK_METHOD : {None, <<"g", "e", "t">>},
     INCLUDE_CONTENT : {None, <<"T", "r", "u", "e">>, <<"1">>},
     OVERWRITE_WITH_RESPONSE : {None, TRUE_STR},
     watch_dir_exists : BOOLEAN,
     recommended_watcher : {"Ok", "Err"},
     watch : {"Ok", "Err"}]

\* an environment in which startup succeeds and builds the Config c
EnvOf(c) ==
    [WEBHOOK_URL |-> URL,
     WEBHOOK_METHOD |-> c.webhook_method,
     INCLUDE_CONTENT |-> IF c.include_content THEN TRUE_STR ELSE None,
     OVERWRITE_WITH_RESPONSE |->
         IF c.overwrite_with_response THEN TRUE_STR ELSE None,
     watch_dir_exists |-> TRUE,
     recommended_watcher |-> "Ok",
     watch |-> "Ok"]

\* the Config variable of main before from_env has returned
NoConfig == [built |-> FALSE]

InitFiles ==
    [p \in Paths |->
        IF p \in {A_XML, B_XML, C_TXT, DOT_XML, NOEXT} THEN RegularFile(ORIG)
        ELSE IF p = D_XML THEN Directory
        ELSE Absent]

InitState ==
    /\ files = InitFiles
    /\ queue = <<>>
    /\ disp = [pc |-> "recv", paths |-> <<>>]
    /\ ignore_list = {}
    /\ lock = "free"
    /\ tasks = EmptyBag

\* WEBHOOK_METHOD unset: the default verb
Init ==
    /\ config \in {c \in Configs : c.webhook_method = POST}
    /\ env = EnvOf(config)
    /\ InitState

\* any WEBHOOK_METHOD
InitInputs ==
    /\ config \in Configs
    /\ env = EnvOf(config)
    /\ InitState

\* the process has just been started: main has not run yet
InitStartup ==
    /\ env \in Envs
    /\ config = NoConfig
    /\ files = InitFiles
    /\ queue = <<>>
    /\ disp = [pc |-> "from_env", paths |-> <<>>]
    /\ ignore_list = {}
    /\ lock = "free"
    /\ tasks = EmptyBag

\* the task r goes on as r2
Replace(r, r2) == (tasks (-) SetToBag({r})) (+) SetToBag({r2})

\* the task r ends
End(r) == tasks (-) SetToBag({r})

Running == BagToSet(tasks)

(***************************************************************************)
(* The watcher callback: the operating system reports an event.            *)
(***************************************************************************)
RECURSIVE SumLen(_)
SumLen(q) == IF q = <<>> THEN 0 ELSE Len(Head(q).paths) + SumLen(Tail(q))

\* paths that may still lead to a delivery
Pending == SumLen(queue) + Len(disp.paths)

\* the deliveries among the tasks (the others are deferred removals)
Deliveries == BagCardinality([r \in {x \in Running : x.pc \notin {"sleep", "remove"}}
                                |-> tasks[r]])

\* tx.send(event); the model lets at most MaxTasks tasks, and among them at
\* most limit deliveries, be alive at once
WatcherCallback(kind, paths, limit) ==
    /\ Len(queue) < MaxQueue
    /\ BagCardinality(tasks) + Pending + Len(paths) <= MaxTasks
    /\ Deliveries + Pending + Len(paths) <= limit
    /\ queue' = Append(queue, [kind |-> kind, paths |-> paths])
    /\ UNCHANGED <<env, config, files, disp, ignore_list, lock, tasks>>

(***************************************************************************)
(* The startup of main, up to the dispatch loop.                           *)
(***************************************************************************)
\* eprintln!("ERROR: {}", error) and std::process::exit(code): the process is
\* gone, with every task it had
exit(code, error) ==
    /\ disp' = [pc |-> "exited", paths |-> <<>>, code |-> code, error |-> error]
    /\ tasks' = EmptyBag

\* Config::from_env() and the match on its result
FromEnv ==
    /\ disp.pc = "from_env"
    /\ LET res == from_env(env)
       IN  IF is_err(res)
           THEN exit(1, res.Err) /\ config' = config
           ELSE /\ config' = res.Ok
                /\ disp' = [disp EXCEPT !.pc = "exists"]
                /\ tasks' = tasks
    /\ UNCHANGED <<env, files, queue, ignore_list, lock>>

\* config.watch_dir.exists()
WatchDirExists ==
    /\ disp.pc = "exists"
    /\ IF ~env.watch_dir_exists
       THEN exit(1, "Watch directory does not exist")
       ELSE disp' = [disp EXCEPT !.pc = "recommended_watcher"] /\ tasks' = tasks
    /\ UNCHANGED <<env, config, files, queue, ignore_list, lock>>

\* the ignore list and the channel are created, then
\* notify::recommended_watcher(callback)
RecommendedWatcher ==
    /\ disp.pc = "recommended_watcher"
    /\ IF env.recommended_watcher = "Err"
       THEN exit(1, "Failed to create watcher")
       ELSE disp' = [disp EXCEPT !.pc = "watch_call"] /\ tasks' = tasks
    /\ UNCHANGED <<env, config, files, queue, ignore_list, lock>>

\* watcher.watch(&config.watch_dir, Recursive) is called: the directories are
\* being attached
WatchCall ==
    /\ disp.pc = "watch_call"
    /\ disp' = [disp EXCEPT !.pc = "watch"]
    /\ UNCHANGED <<env, config, files, queue, ignore_list, lock, tasks>>

\* watcher.watch returns; on Ok the loop is entered
Watch ==
    /\ disp.pc = "watch"
    /\ IF env.watch = "Err"
       THEN exit(1, "Failed to watch directory")
       ELSE disp' = [disp EXCEPT !.pc = "recv"] /\ tasks' = tasks
    /\ UNCHANGED <<env, config, files, queue, ignore_list, lock>>

\* the watcher's thread can call the callback from the moment a directory is
\* attached, and as long as the process lives
Watching == disp.pc \in {"watch", "recv", "filter", "lock", "contains"}

(***************************************************************************)
(* The dispatch loop of main.                                              *)
(***************************************************************************)
\* the loop's position once the first of the paths left has been dealt with
Advance(d) ==
    IF Len(d.paths) > 1 THEN [pc |-> "filter", paths |-> Tail(d.paths)]
    ELSE [pc |-> "recv", paths |-> <<>>]

\* Recv taking modifications as well as creations
Recv_CreateOrModify ==
    /\ disp.pc = "recv"
    /\ queue # <<>>
    /\ queue' = Tail(queue)
    /\ disp' = IF Head(queue).kind \in {"Create", "Modify"} /\ Head(queue).paths # <<>>
               THEN [pc |-> "filter", paths |-> Head(queue).paths]
               ELSE disp
    /\ UNCHANGED <<env, config, files, ignore_list, lock, tasks>>

\* rx.recv() and the match on the event's kind
Recv ==
    /\ disp.pc = "recv"
    /\ queue # <<>>
    /\ queue' = Tail(queue)
    /\ disp' = IF Head(queue).kind = "Create" /\ Head(queue).paths # <<>>
               THEN [pc |-> "filter", paths |-> Head(queue).paths]
               ELSE disp
    /\ UNCHANGED <<env, config, files, ignore_list, lock, tasks>>

\* path.is_file() && is_xml_file(&path)
Filter ==
    /\ disp.pc = "filter"
    /\ disp' = IF is_file(files, Head(disp.paths)) /\ IsXmlFile[Head(disp.paths)]
               THEN [disp EXCEPT !.pc = "lock"]
               ELSE Advance(disp)
    /\ UNCHANGED <<env, config, files, queue, ignore_list, lock, tasks>>

\* ignore_list.lock()
DispLock ==
    /\ disp.pc = "lock"
    /\ lock = "free"
    /\ lock' = "disp"
    /\ disp' = [disp EXCEPT !.pc = "contains"]
    /\ UNCHANGED <<env, config, files, queue, ignore_list, tasks>>

\* Contains with the guard of the mutex alive until the end of the iteration
Contains_KeepGuard ==
    /\ disp.pc = "contains"
    /\ LET path == Head(disp.paths)
           should_ignore == path \in ignore_list
       IN  tasks' = IF should_ignore THEN tasks
                    ELSE tasks (+) SetToBag({NewDelivery(path)})
    /\ disp' = Advance(disp)
    /\ UNCHANGED <<env, config, files, queue, ignore_list, lock>>

\* ignore.contains(&path), the release of the mutex, and the skip or the
\* tokio::spawn of the delivery
Contains ==
    /\ disp.pc = "contains"
    /\ lock' = "free"
    /\ LET path == Head(disp.paths)
           should_ignore == path \in ignore_list
       IN  tasks' = IF should_ignore THEN tasks
                    ELSE tasks (+) SetToBag({NewDelivery(path)})
    /\ disp' = Advance(disp)
    /\ UNCHANGED <<env, config, files, queue, ignore_list>>

(***************************************************************************)
(* A delivery task: the settle delay and trigger_webhook, one action per   *)
(* stretch of code between two suspension points.                          *)
(***************************************************************************)
\* the request is built and sent: payload, verb, send()
IssueRequest(r, content) ==
    [r EXCEPT !.pc = "http", !.content = content,
              !.requests = r.requests + 1,
              !.verb = RequestVerb(config.webhook_method)]

\* sleep(500 ms) has returned and trigger_webhook starts
Wake(r) ==
    /\ r.pc = "settle"
    /\ tasks' = Replace(r, IF config.include_content THEN [r EXCEPT !.pc = "read"]
                           ELSE IssueRequest(r, None))
    /\ UNCHANGED <<env, config, files, queue, disp, ignore_list, lock>>

\* ReadFile giving up the delivery when the read fails
ReadFile_Abort(r, ok) ==
    /\ r.pc = "read"
    /\ ok => is_file(files, r.path)
    /\ tasks' = IF ok THEN Replace(r, IssueRequest(r, files[r.path].data))
                 ELSE End(r)
    /\ UNCHANGED <<env, config, files, queue, disp, ignore_list, lock>>

\* tokio::fs::read_to_string returns; a failure leaves the content absent
ReadFile(r, ok) ==
    /\ r.pc = "read"
    /\ ok => is_file(files, r.path)
    /\ tasks' = Replace(r, IssueRequest(r, IF ok THEN files[r.path].data ELSE None))
    /\ UNCHANGED <<env, config, files, queue, disp, ignore_list, lock>>

\* send() fails: the error is logged and the delivery ends
RequestFailed(r) ==
    /\ r.pc = "http"
    /\ tasks' = End(r)
    /\ UNCHANGED <<env, config, files, queue, disp, ignore_list, lock>>

\* Response overwriting only when the content of the file was sent
Response_NeedsContent(r, status, content_type) ==
    /\ r.pc = "http"
    /\ tasks' =
          IF is_success(status)
          THEN IF should_overwrite_with_response(config) /\ is_xml(content_type)
                    /\ r.content # None
               THEN Replace(r, [r EXCEPT !.pc = "text",
                                         !.response = [status |-> status,
                                                       content_type |-> content_type]])
               ELSE End(r)
          ELSE Replace(r, [r EXCEPT !.pc = "error_text"])
    /\ UNCHANGED <<env, config, files, queue, disp, ignore_list, lock>>

\* send() returns a response: status and headers are examined
Response(r, status, content_type) ==
    /\ r.pc = "http"
    /\ tasks' =
          IF is_success(status)
          THEN IF should_overwrite_with_response(config) /\ is_xml(content_type)
               THEN Replace(r, [r EXCEPT !.pc = "text",
                                         !.response = [status |-> status,
                                                       content_type |-> content_type]])
               ELSE End(r)
          ELSE Replace(r, [r EXCEPT !.pc = "error_text"])
    /\ UNCHANGED <<env, config, files, queue, disp, ignore_list, lock>>

\* ErrorText sending the request again
ErrorText_Retry(r) ==
    /\ r.pc = "error_text"
    /\ tasks' = Replace(r, IssueRequest(r, r.content))
    /\ UNCHANGED <<env, config, files, queue, disp, ignore_list, lock>>

\* the body of a non-2xx response has been read (or not) and is logged
ErrorText(r) ==
    /\ r.pc = "error_text"
    /\ tasks' = End(r)
    /\ UNCHANGED <<env, config, files, queue, disp, ignore_list, lock>>

\* response.text() fails
TextFailed(r) ==
    /\ r.pc = "text"
    /\ tasks' = End(r)
    /\ UNCHANGED <<env, config, files, queue, disp, ignore_list, lock>>

\* Text with the write started before the path is inserted
Text_WriteFirst(r, response_body) ==
    /\ r.pc = "text"
    /\ tasks' =
          IF response_body # EMPTY
          THEN Replace(r, [r EXCEPT !.pc = "write", !.body = response_body,
                                    !.response = NoResponse])
          ELSE End(r)
    /\ UNCHANGED <<env, config, files, queue, disp, ignore_list, lock>>

\* response.text() returns the body, consuming the response
Text(r, response_body) ==
    /\ r.pc = "text"
    /\ tasks' =
          IF response_body # EMPTY
          THEN Replace(r, [r EXCEPT !.pc = "insert_lock", !.body = response_body,
                                    !.response = NoResponse])
          ELSE End(r)
    /\ UNCHANGED <<env, config, files, queue, disp, ignore_list, lock>>

\* ignore_list.lock() before the insert
InsertLock(r) ==
    /\ r.pc = "insert_lock"
    /\ lock = "free"
    /\ lock' = "task"
    /\ tasks' = Replace(r, [r EXCEPT !.pc = "insert"])
    /\ UNCHANGED <<env, config, files, queue, disp, ignore_list>>

\* Insert with the guard of the mutex kept for the rest of the function
Insert_KeepGuard(r) ==
    /\ r.pc = "insert"
    /\ ignore_list' = ignore_list \cup {r.path}
    /\ tasks' = Replace(r, [r EXCEPT !.pc = "write", !.inserted = TRUE])
    /\ UNCHANGED <<env, config, files, queue, disp, lock>>

\* Insert cancelling the deferred removals already pending for its path
Insert_CancelTimers(r) ==
    /\ r.pc = "insert"
    /\ ignore_list' = ignore_list \cup {r.path}
    /\ lock' = "free"
    /\ LET kept == {x \in Running : ~(x.pc = "sleep" /\ x.path = r.path)}
       IN  tasks' = ([x \in kept |-> tasks[x]] (-) SetToBag({r}))
                        (+) SetToBag({[r EXCEPT !.pc = "write", !.inserted = TRUE]})
    /\ UNCHANGED <<env, config, files, queue, disp>>

\* ignore.insert(filepath.clone()) and the release of the mutex
Insert(r) ==
    /\ r.pc = "insert"
    /\ ignore_list' = ignore_list \cup {r.path}
    /\ lock' = "free"
    /\ tasks' = Replace(r, [r EXCEPT !.pc = "write", !.inserted = TRUE])
    /\ UNCHANGED <<env, config, files, queue, disp>>

\* tokio::fs::write(&filepath, &response_body) is called
WriteStart(r) ==
    /\ r.pc = "write"
    /\ tasks' = Replace(r, [r EXCEPT !.pc = "writing", !.wstate = "started"])
    /\ UNCHANGED <<env, config, files, queue, disp, ignore_list, lock>>

\* the deferred removal spawned after a successful write, in its sleep; the
\* delivery that spawned it has ended, what it did stays on record
DeferredRemoval(r) ==
    [r EXCEPT !.pc = "sleep", !.timer = IgnoreTicks, !.wstate = "ok", !.wage = 0,
              !.content = None, !.body = EMPTY]

\* WriteEnd without the failure arm
WriteEnd_NoRollback(r, ok) ==
    /\ r.pc = "writing"
    /\ IF ok
       THEN /\ files' = [files EXCEPT ![r.path] = RegularFile(r.body)]
            /\ tasks' = Replace(r, DeferredRemoval(r))
       ELSE /\ files' = files
            /\ tasks' = End(r)
    /\ UNCHANGED <<env, config, queue, disp, ignore_list, lock>>

\* WriteEnd without the spawn of the deferred removal
WriteEnd_NoRemoval(r, ok) ==
    /\ r.pc = "writing"
    /\ IF ok
       THEN /\ files' = [files EXCEPT ![r.path] = RegularFile(r.body)]
            /\ tasks' = End(r)
       ELSE /\ files' = files
            /\ tasks' = Replace(r, [r EXCEPT !.pc = "rollback_lock",
                                             !.wstate = "failed"])
    /\ UNCHANGED <<env, config, queue, disp, ignore_list, lock>>

\* tokio::fs::write returns.  On success the file has the body and the
\* deferred removal is spawned; on failure the file is as it was
WriteEnd(r, ok) ==
    /\ r.pc = "writing"
    /\ IF ok
       THEN /\ files' = [files EXCEPT ![r.path] = RegularFile(r.body)]
            /\ tasks' = Replace(r, DeferredRemoval(r))
       ELSE /\ files' = files
            /\ tasks' = Replace(r, [r EXCEPT !.pc = "rollback_lock",
                                             !.wstate = "failed"])
    /\ UNCHANGED <<env, config, queue, disp, ignore_list, lock>>

\* ignore_list.lock() in the failure arm
RollbackLock(r) ==
    /\ r.pc = "rollback_lock"
    /\ lock = "free"
    /\ lock' = "task"
    /\ tasks' = Replace(r, [r EXCEPT !.pc = "rollback"])
    /\ UNCHANGED <<env, config, files, queue, disp, ignore_list>>

\* Rollback with the removal left out
Rollback_Keep(r) ==
    /\ r.pc = "rollback"
    /\ lock' = "free"
    /\ tasks' = End(r)
    /\ UNCHANGED <<env, config, files, queue, disp, ignore_list>>

\* Rollback with the guard of the mutex never dropped
Rollback_KeepGuard(r) ==
    /\ r.pc = "rollback"
    /\ ignore_list' = ignore_list \ {r.path}
    /\ tasks' = End(r)
    /\ UNCHANGED <<env, config, files, queue, disp, lock>>

\* ignore.remove(&filepath) in the failure arm, the release of the mutex and
\* the end of the delivery
Rollback(r) ==
    /\ r.pc = "rollback"
    /\ ignore_list' = ignore_list \ {r.path}
    /\ lock' = "free"
    /\ tasks' = End(r)
    /\ UNCHANGED <<env, config, files, queue, disp>>

(***************************************************************************)
(* A deferred removal: sleep(IGNORE_DURATION_SECS), then remove.           *)
(***************************************************************************)
\* the sleep has elapsed: ignore_list_clone.lock()
RemoverLock(r) ==
    /\ r.pc = "sleep"
    /\ r.timer = 0
    /\ lock = "free"
    /\ lock' = "task"
    /\ tasks' = Replace(r, [r EXCEPT !.pc = "remove"])
    /\ UNCHANGED <<env, config, files, queue, disp, ignore_list>>

\* Remove with the removal left out
Remove_Nothing(r) ==
    /\ r.pc = "remove"
    /\ lock' = "free"
    /\ tasks' = End(r)
    /\ UNCHANGED <<env, config, files, queue, disp, ignore_list>>

\* ignore.remove(&filepath_clone), the release of the mutex and the end of
\* the task
Remove(r) ==
    /\ r.pc = "remove"
    /\ ignore_list' = ignore_list \ {r.path}
    /\ lock' = "free"
    /\ tasks' = End(r)
    /\ UNCHANGED <<env, config, files, queue, disp>>

(***************************************************************************)
(* Time: one second passes for every task.                                 *)
(***************************************************************************)
Dec(n) == IF n > 0 THEN n - 1 ELSE 0

\* a task one second later
Later(r) ==
    [r EXCEPT !.timer = Dec(@),
              !.wage = IF r.wstate = "ok" /\ @ < IgnoreTicks THEN @ + 1 ELSE @]

Tick ==
    /\ \E r \in Running : Later(r) # r
    /\ tasks' = BagOfAll(Later, tasks)
    /\ UNCHANGED <<env, config, files, queue, disp, ignore_list, lock>>

(***************************************************************************)
(* The system.                                                             *)
(***************************************************************************)
\* the steps of the dispatch loop, the deliveries and the removals
Program ==
    \/ Recv
    \/ Filter
    \/ DispLock
    \/ Contains
    \/ \E r \in Running : Wake(r)
    \/ \E r \in Running, ok \in BOOLEAN : ReadFile(r, ok)
    \/ \E r \in Running : RequestFailed(r)
    \/ \E r \in Running, status \in StatusCodes, content_type \in ContentTypes :
          Response(r, status, content_type)
    \/ \E r \in Running : ErrorText(r)
    \/ \E r \in Running : TextFailed(r)
    \/ \E r \in Running, response_body \in Bodies : Text(r, response_body)
    \/ \E r \in Running : InsertLock(r)
    \/ \E r \in Running : Insert(r)
    \/ \E r \in Running : WriteStart(r)
    \/ \E r \in Running, ok \in BOOLEAN : WriteEnd(r, ok)
    \/ \E r \in Running : RollbackLock(r)
    \/ \E r \in Running : Rollback(r)
    \/ \E r \in Running : RemoverLock(r)
    \/ \E r \in Running : Remove(r)
    \/ Tick

\* events for the .xml files and one other file
WatchedPaths == {A_XML, B_XML, C_TXT}
WatchedKinds == {"Create", "Modify"}

Next ==
    \/ \E kind \in WatchedKinds, paths \in PathSeqs(WatchedPaths, MaxPaths) :
          WatcherCallback(kind, paths, MaxTasks)
    \/ Program

\* concurrent deliveries
Spec == Init /\ [][Next]_vars

NextInputs ==
    \/ \E kind \in EventKinds, paths \in PathSeqs(Paths, MaxPaths) :
          WatcherCallback(kind, paths, 1)
    \/ Program

\* one delivery at a time, every kind of event, path and method
SpecInputs == InitInputs /\ [][NextInputs]_vars

\* the path of the Create events under fair scheduling
FairPaths == {A_XML}

\* both flags set: responses can overwrite
InitFair ==
    /\ config = [webhook_method |-> POST, include_content |-> TRUE,
                 overwrite_with_response |-> TRUE]
    /\ env = EnvOf(config)
    /\ InitState

NextFair ==
    \/ \E paths \in PathSeqs(FairPaths, MaxPaths) :
          WatcherCallback("Create", paths, MaxTasks)
    \/ Program

\* the thread of main runs, and takes the mutex when it is free often enough
MainRuns ==
    /\ WF_vars(Recv)
    /\ WF_vars(Filter)
    /\ SF_vars(DispLock)
    /\ WF_vars(Contains)

\* the runtime polls every spawned task that can go on; a file read, a
\* request, the reading of a body and a file write return; a task waiting for
\* the mutex gets it when it is free often enough
TasksRun(p) ==
    /\ WF_vars(\E r \in Running : r.path = p /\ Wake(r))
    /\ WF_vars(\E r \in Running, ok \in BOOLEAN : r.path = p /\ ReadFile(r, ok))
    /\ WF_vars(\E r \in Running : r.path = p /\
          (RequestFailed(r) \/ \E status \in StatusCodes, content_type \in ContentTypes :
                                  Response(r, status, content_type)))
    /\ WF_vars(\E r \in Running : r.path = p /\ ErrorText(r))
    /\ WF_vars(\E r \in Running : r.path = p /\
          (TextFailed(r) \/ \E response_body \in Bodies : Text(r, response_body)))
    /\ SF_vars(\E r \in Running : r.path = p /\ InsertLock(r))
    /\ WF_vars(\E r \in Running : r.path = p /\ Insert(r))
    /\ WF_vars(\E r \in Running : r.path = p /\ WriteStart(r))
    /\ WF_vars(\E r \in Running, ok \in BOOLEAN : r.path = p /\ WriteEnd(r, ok))
    /\ SF_vars(\E r \in Running : r.path = p /\ RollbackLock(r))
    /\ WF_vars(\E r \in Running : r.path = p /\ Rollback(r))
    /\ SF_vars(\E r \in Running : r.path = p /\ RemoverLock(r))
    /\ WF_vars(\E r \in Running : r.path = p /\ Remove(r))

\* fair scheduling: main and the tasks run, and time passes
Fairness ==
    /\ MainRuns
    /\ \A p \in FairPaths : TasksRun(p)
    /\ WF_vars(Tick)

\* concurrent deliveries under fair scheduling
SpecFair == InitFair /\ [][NextFair]_vars /\ Fairness

Startup ==
    \/ FromEnv
    \/ WatchDirExists
    \/ RecommendedWatcher
    \/ WatchCall
    \/ Watch

NextStartup ==
    \/ Startup
    \/ \E kind \in EventKinds, paths \in PathSeqs(Paths, MaxPaths) :
          Watching /\ WatcherCallback(kind, paths, 1)
    \/ Program

\* the process from its start, in every environment
SpecStartup == InitStartup /\ [][NextStartup]_vars

(***************************************************************************)
(* Properties.                                                             *)
(***************************************************************************)
\* some overwrite of path returned less than IGNORE_DURATION_SECS ago
RecentlyOverwritten(path) ==
    \E r \in Running : r.path = path /\ r.wstate = "ok" /\ r.wage < IgnoreTicks

\* C1: when the dispatch loop checks a path that a delivery overwrote less
\* than 2 seconds ago, the path is in the ignore list (so the event is
\* skipped and no delivery is spawned), whatever other deliveries are doing.
C1_SelfOverwriteSuppressed ==
    disp.pc = "contains" /\ RecentlyOverwritten(Head(disp.paths))
        => Head(disp.paths) \in ignore_list

\* C2: a delivery whose write has begun or returned has inserted its path
\* before; a deferred removal exists only for a write that succeeded, and it
\* removes only when the ignore delay has passed since that write.
C2_InsertWriteRemoveOrder ==
    \A r \in Running :
        /\ r.wstate # "none" => r.inserted
        /\ r.pc \in {"writing", "rollback_lock", "rollback", "sleep", "remove"}
              => r.wstate # "none"
        /\ r.pc \in {"sleep", "remove"} => r.wstate = "ok"
        /\ r.pc = "remove" => r.wage >= IGNORE_DURATION_SECS

\* C2 witness: a deferred removal about to remove, its full delay elapsed
C2_Witness ==
    \E r \in Running : r.pc = "remove" /\ r.inserted /\ r.wstate = "ok"

\* the task r takes a step
Steps(r) == CopiesIn(r, tasks') < CopiesIn(r, tasks)

C3_Step ==
    /\ \A p \in Paths :
        /\ p \notin ignore_list /\ p \in ignore_list'
              => \E r \in Running : r.pc = "insert" /\ r.path = p /\ Steps(r)
        /\ p \in ignore_list /\ p \notin ignore_list'
              => \E r \in Running :
                    r.pc \in {"rollback", "remove"} /\ r.path = p /\ Steps(r)
        /\ (\E r \in Running : r.pc = "insert" /\ r.path = p /\ Steps(r))
              => p \in ignore_list'
        /\ (\E r \in Running :
                r.pc \in {"rollback", "remove"} /\ r.path = p /\ Steps(r))
              => p \notin ignore_list'
    /\ disp.pc = "contains" /\ disp' # disp
          => (tasks' = tasks <=> Head(disp.paths) \in ignore_list)

C3_Scenario ==
    /\ \A r \in Running :
          r.pc \in {"write", "writing", "sleep"} => r.path \in ignore_list
    /\ \A p \in ignore_list : \E r \in Running : r.path = p /\ r.inserted

\* C3: a path enters the ignore list only by an insert and leaves it only by
\* a removal (failure arm or deferred), an insert makes contains true and a
\* removal makes it false, and the dispatch loop's contains check answers by
\* membership; with one overwrite of a path at a time the path is in the list
\* from the insert until the removal fires and not after it.
C3_SetSemantics == [](C3_Scenario) /\ [][C3_Step]_vars

\* C3 witness: the contains check finds a path whose deferred removal is pending
C3_Witness ==
    /\ disp.pc = "contains"
    /\ Head(disp.paths) \in ignore_list
    /\ \E r \in Running : r.pc = "sleep" /\ r.path = Head(disp.paths)

\* the task r2 appears in this step
Appears(r2) == CopiesIn(r2, tasks') > CopiesIn(r2, tasks)

HasPrefix(s, prefix) ==
    /\ Len(prefix) <= Len(s)
    /\ \A i \in 1..Len(prefix) : s[i] = prefix[i]

BothFlags == config.overwrite_with_response /\ config.include_content

C4_Chain ==
    \A r \in Running :
        /\ r.pc = "text"
              => /\ BothFlags
                 /\ r.response.status \in 200..299
                 /\ \/ HasPrefix(r.response.content_type, TEXT_XML)
                    \/ HasPrefix(r.response.content_type, APPLICATION_XML)
        /\ r.pc \in {"insert_lock", "insert", "write", "writing"}
              => BothFlags /\ r.body # EMPTY
        /\ r.inserted \/ r.wstate # "none" => BothFlags

C4_Step ==
    \* the overwrite path is entered only by a task that read the body of
    \* such a response, and is followed in order
    /\ \A r2 \in BagToSet(tasks') :
          Appears(r2) /\ r2.pc \in {"insert_lock", "insert", "write", "writing"} =>
             \E r \in Running : Steps(r) /\
                CASE r2.pc = "insert_lock" -> r.pc = "text"
                  [] r2.pc = "insert" -> r.pc = "insert_lock"
                  [] r2.pc = "write" -> r.pc = "insert"
                  [] r2.pc = "writing" -> r.pc = "write"
    \* only the insert and the write of such a task add to the ignore list
    \* or change a file
    /\ ~(ignore_list' \subseteq ignore_list)
          => \E r \in Running : Steps(r) /\ r.pc = "insert"
    /\ files' # files
          => \E r \in Running : Steps(r) /\ r.pc = "writing" /\
                files' = [files EXCEPT ![r.path] = RegularFile(r.body)]
    \* every step before that leaves both as they are
    /\ \A r \in Running :
          Steps(r) /\ r.pc \in {"settle", "read", "http", "error_text", "text"}
              => files' = files /\ ignore_list' = ignore_list

\* C4: a delivery inserts into the ignore list and writes the file only after
\* a 2xx response whose content-type starts with text/xml or application/xml
\* and whose body is not empty, with both flags set; a delivery that ends any
\* other way leaves the files and the ignore list as they were.
C4_OverwritePrecondition == [](C4_Chain) /\ [][C4_Step]_vars

\* C4 witness: an overwrite has been made with the response body
C4_Witness ==
    \E r \in Running :
        r.pc = "sleep" /\ files[r.path] = RegularFile(OK_BODY) /\ r.path \in ignore_list

\* C5: with overwrite-with-response set and include-content unset, the ignore
\* list stays empty, no file changes and no delivery is in the overwrite path.
C5_InertCombination ==
    config.overwrite_with_response /\ ~config.include_content
        => /\ ignore_list = {}
           /\ files = InitFiles
           /\ \A r \in Running : r.pc \in {"settle", "http", "error_text"}

\* C5 witness: under the inert combination a delivery has sent its request
C5_Witness ==
    /\ config.overwrite_with_response /\ ~config.include_content
    /\ \E r \in Running : r.pc = "http" /\ r.requests = 1

C6_Failed ==
    \A r \in Running : r.wstate = "failed" <=> r.pc \in {"rollback_lock", "rollback"}

C6_Step ==
    \A r \in Running : r.pc = "rollback" /\ Steps(r)
        => /\ ignore_list' = ignore_list \ {r.path}
           /\ r.path \notin ignore_list'
           /\ tasks' = tasks (-) SetToBag({r})
           /\ files' = files

\* C6: a delivery whose write failed goes straight to the removal of its path;
\* that step removes the path, leaves the other entries, spawns no deferred
\* removal and ends the delivery.
C6_RollbackOnWriteFailure == [](C6_Failed) /\ [][C6_Step]_vars

\* C6 witness: a failed write is about to be rolled back while another path
\* is in the ignore list
C6_Witness ==
    \E r \in Running :
        /\ r.pc = "rollback"
        /\ r.path \in ignore_list
        /\ \E q \in ignore_list : q # r.path

C7_Once ==
    \A r \in Running :
        IF r.pc \in {"settle", "read"} THEN r.requests = 0 ELSE r.requests = 1

C7_Step ==
    \* an accepted path spawns one delivery of that path, and nothing else does
    /\ disp.pc = "contains" /\ disp' # disp /\ Head(disp.paths) \notin ignore_list
          => /\ BagCardinality(tasks') = BagCardinality(tasks) + 1
             /\ \E r2 \in BagToSet(tasks') :
                   /\ r2.pc = "settle" /\ r2.path = Head(disp.paths)
                   /\ CopiesIn(r2, tasks') = CopiesIn(r2, tasks) + 1
    /\ (\E r2 \in BagToSet(tasks') : r2.pc = "settle" /\ Appears(r2))
          => disp.pc = "contains" /\ disp' # disp
    /\ BagCardinality(tasks') > BagCardinality(tasks)
          => disp.pc = "contains" /\ disp' # disp
    \* a delivery that ends has sent one request
    /\ \A r \in Running :
          Steps(r) /\ BagCardinality(tasks') < BagCardinality(tasks)
              => r.requests = 1

\* C7: every path the dispatch loop accepts spawns exactly one delivery, and a
\* delivery has sent no request before its send and exactly one from then on,
\* however it ends.
C7_ExactlyOneAttempt == [](C7_Once) /\ [][C7_Step]_vars

\* C7 witness: a delivery that got a non-2xx response and one that failed to
\* write, each with one request sent
C7_Witness ==
    /\ \E r \in Running : r.pc = "error_text" /\ r.requests = 1
    /\ \E r \in Running : r.pc = "rollback_lock" /\ r.requests = 1

\* the tasks inside one operation on the ignore list, holding its mutex
InSetOperation == {r \in Running : r.pc \in {"insert", "rollback", "remove"}}

\* C8: whenever the dispatch loop has something to do it can do it, whatever
\* the tasks are waiting for; the one exception is the moment a task is inside
\* a single insert or remove, which that task can finish at once.
C8_DispatchNeverBlocks ==
    /\ disp.pc = "recv" /\ queue # <<>> => ENABLED Recv
    /\ disp.pc = "filter" => ENABLED Filter
    /\ disp.pc = "contains" => ENABLED Contains
    /\ disp.pc = "lock" =>
          \/ ENABLED DispLock
          \/ \E r \in InSetOperation :
                ENABLED (Insert(r) \/ Rollback(r) \/ Remove(r))
    /\ lock = "task" => \E r \in InSetOperation : tasks[r] = 1
    /\ lock # "task" => InSetOperation = {}

\* C8 witness: the dispatch loop checks a path while a delivery is in its
\* file write
C8_Witness ==
    /\ disp.pc = "contains"
    /\ \E r \in Running : r.pc = "writing"

\* the paths of the watched directory that are regular files named *.xml
AcceptedPaths == {A_XML, B_XML}

\* C9: only a path that is a regular file whose extension is xml in any
\* letter case gets past the filter, so every delivery, and every request,
\* is for such a path.
C9_ExtensionFilter ==
    /\ \A r \in Running : r.path \in AcceptedPaths /\ files[r.path].kind = "file"
    /\ disp.pc \in {"lock", "contains"} => Head(disp.paths) \in AcceptedPaths
    /\ disp.pc = "filter" /\ Head(disp.paths) \notin AcceptedPaths
          => ~ENABLED (Filter /\ disp'.pc = "lock")

\* C9 witness: the filter examines the directory d.xml, s/b.XmL having been
\* accepted and delivered before
C9_Witness ==
    /\ disp.pc = "filter"
    /\ Head(disp.paths) = D_XML
    /\ \E r \in Running : r.path = B_XML

\* the verb the claim gives for a configured method
ExpectedVerb(method) ==
    IF eq_ignore_ascii_case(method, GET) THEN "GET"
    ELSE IF eq_ignore_ascii_case(method, PUT) THEN "PUT"
    ELSE IF eq_ignore_ascii_case(method, PATCH) THEN "PATCH"
    ELSE IF eq_ignore_ascii_case(method, DELETE) THEN "DELETE"
    ELSE "POST"

\* C10: the request of every delivery has the verb named by the configured
\* method in any letter case, POST for every other string, and every delivery
\* past its read has sent its request whatever the method.
C10_VerbDispatch ==
    \A r \in Running :
        /\ r.requests = 0 => r.verb = ""
        /\ r.requests # 0 => r.verb = ExpectedVerb(config.webhook_method)
        /\ r.pc \notin {"settle", "read"} => r.requests = 1
        /\ config.webhook_method \in
              {POST, <<"p", "o", "s", "t">>, <<"P", "o", "s", "t">>,
               <<"b", "o", "g", "u", "s">>, <<>>}
              /\ r.requests # 0 => r.verb = "POST"

\* C10 witness: an unknown method has been sent as POST
C10_Witness ==
    /\ config.webhook_method = <<"b", "o", "g", "u", "s">>
    /\ \E r \in Running : r.requests = 1 /\ r.verb = "POST"

\* the positions of main before the dispatch loop, in order
StartupPcs == <<"from_env", "exists", "recommended_watcher", "watch_call", "watch">>

\* the environment makes startup fail
FatalEnv ==
    \/ env.WEBHOOK_URL = None
    \/ ~env.watch_dir_exists
    \/ env.recommended_watcher = "Err"
    \/ env.watch = "Err"

\* the index in StartupPcs of the step at which the first fatal error shows
FatalAt ==
    IF env.WEBHOOK_URL = None THEN 1
    ELSE IF ~env.watch_dir_exists THEN 2
    ELSE IF env.recommended_watcher = "Err" THEN 3
    ELSE 5

C11_Before ==
    /\ FatalEnv =>
          /\ \/ disp.pc = "exited"
             \/ \E i \in 1..FatalAt : disp.pc = StartupPcs[i]
          /\ tasks = EmptyBag
          /\ ignore_list = {}
          /\ lock = "free"
    /\ disp.pc = "exited" => FatalEnv /\ disp.code = 1
    /\ env.WEBHOOK_URL = None => queue = <<>>
    /\ disp.pc \in {"from_env", "exists", "recommended_watcher", "watch_call"}
          => queue = <<>>

C11_Step ==
    /\ FatalEnv =>
          \* no event is received, no delivery is spawned
          /\ Len(queue') >= Len(queue)
          /\ tasks' = EmptyBag
          \* the failing step ends the process
          /\ disp.pc = StartupPcs[FatalAt] /\ disp' # disp
                => disp'.pc = "exited" /\ disp'.code = 1
    /\ disp.pc = "exited" => vars' = vars

\* C11: in an environment with WEBHOOK_URL unset, no watch directory, or a
\* watcher that cannot be created or attached, main exits with code 1 at the
\* failing step and never enters the dispatch loop: no event is received, no
\* delivery is spawned, no request is sent; with WEBHOOK_URL unset no watch is
\* ever attached, so no event is even sent.
C11_FatalStartup == [](C11_Before) /\ [][C11_Step]_vars

\* C11 witness: the watch could not be attached and the process has exited
\* with code 1, an event sent meanwhile left in the channel
C11_Witness ==
    /\ disp.pc = "exited"
    /\ disp.code = 1
    /\ disp.error = "Failed to watch directory"
    /\ queue # <<>>

\* C12: under fair scheduling a path in the ignore list is eventually out of
\* it (every insert is followed by the failure-arm removal or the deferred
\* removal of that path), and if from some time on no delivery reaches its
\* insert, the ignore list eventually is and stays empty.
C12_NoPermanentLeak ==
    /\ \A p \in FairPaths : (p \in ignore_list) ~> (p \notin ignore_list)
    /\ <>[](\A r \in Running : r.pc # "insert") => <>[](ignore_list = {})

\* C12 witness: the path is in the ignore list, with a failed write awaiting
\* the removal of the failure arm and a deferred removal in its sleep
C12_Witness ==
    /\ ignore_list = {A_XML}
    /\ \E r \in Running : r.pc = "rollback_lock"
    /\ \E r \in Running : r.pc = "sleep" /\ r.timer > 0

\* the positions at which trigger_webhook can return, or its task end
TerminalPcs == {"http", "error_text", "text", "rollback", "remove"}

C13_NotCancelled ==
    \* a task leaves only by its own last step, one task at a time
    /\ BagCardinality(tasks') < BagCardinality(tasks)
          => \E r \in Running : r.pc \in TerminalPcs /\ tasks' = End(r)
    \* and a delivery is gone only when it ended or handed over to its
    \* deferred removal
    /\ \A r \in Running :
          Steps(r) /\ r.pc \notin {"sleep", "remove"}
              => \/ BagCardinality(tasks') = BagCardinality(tasks)
                 \/ r.pc \in TerminalPcs /\ tasks' = End(r)

\* C13: no delivery is cancelled; under fair scheduling, with reads, requests
\* and writes that return, a delivery waiting for the mutex gets it, and once
\* no new delivery is spawned every delivery has ended for good.
C13_DeliveriesTerminate ==
    /\ [][C13_NotCancelled]_vars
    /\ (\E r \in Running : r.pc = "insert_lock") ~> (\E r \in Running : r.pc = "insert")
    /\ (\E r \in Running : r.pc = "rollback_lock")
          ~> (\E r \in Running : r.pc = "rollback")
    /\ <>[](\A r \in Running : r.pc # "settle") => <>[](Deliveries = 0)

\* C13 witness: a delivery waits for the mutex while another, in its failure
\* arm, holds it
C13_Witness ==
    /\ lock = "task"
    /\ \E r \in Running : r.pc = "insert_lock"
    /\ \E r \in Running : r.pc = "rollback"

\* the deferred removals among the tasks
Removals == BagCardinality([r \in {x \in Running : x.pc \in {"sleep", "remove"}}
                              |-> tasks[r]])

C14_Step ==
    \* a deferred removal stays as it is, whatever the other tasks do, until
    \* time passes or its own sleep has ended
    /\ \A s \in Running :
          s.pc = "sleep" /\ CopiesIn(s, tasks') < CopiesIn(s, tasks)
              => \/ tasks' = BagOfAll(Later, tasks)
                 \/ /\ s.timer = 0
                    /\ tasks' = Replace(s, [s EXCEPT !.pc = "remove"])
    \* in particular an insert of the same path leaves it alone
    /\ \A r \in Running : r.pc = "insert" /\ Steps(r)
          => \A s \in Running : s.pc = "sleep"
                => CopiesIn(s, tasks') = CopiesIn(s, tasks)
    \* its remove takes the path out when it is there and changes nothing
    \* when it is not
    /\ \A r \in Running : r.pc = "remove" /\ Steps(r)
          => /\ ignore_list' = ignore_list \ {r.path}
             /\ r.path \notin ignore_list => ignore_list' = ignore_list
             /\ tasks' = End(r)
    /\ Removals' < Removals
          => \E r \in Running : r.pc = "remove" /\ tasks' = End(r)

\* C14: a deferred removal is neither reset nor cancelled by a later insert
\* of its path; each one fires on its own, the remove of the first takes the
\* path out and the remove of a later one finds it absent and changes
\* nothing; once no write is under way every deferred removal has fired.
C14_IndependentRemovals ==
    /\ [][C14_Step]_vars
    /\ [](\A r \in Running : r.pc = "sleep" => r.timer <= IgnoreTicks)
    /\ <>[](\A r \in Running : r.pc # "writing") => <>[](Removals = 0)

\* C14 witness: the second of two overlapping deferred removals of a path is
\* at its remove, the path already taken out
C14_Witness ==
    \E r \in Running :
        /\ r.pc = "remove"
        /\ r.path \notin ignore_list
        /\ BagCardinality(tasks) = 1

\* the number of tasks inside an insert or a remove
Holders == BagCardinality([r \in InSetOperation |-> tasks[r]])

C15_Held ==
    \* main holds the mutex exactly during its contains
    /\ lock = "disp" <=> disp.pc = "contains"
    \* a task holds it exactly during its insert or its remove, so never in a
    \* delay, a file read, a request or a file write
    /\ lock = "task" <=> Holders = 1
    /\ lock = "free" <=> disp.pc # "contains" /\ Holders = 0
    /\ Holders <= 1
    /\ lock \in {"free", "disp", "task"}

\* C15: the mutex of the ignore list is held only for one contains, insert or
\* remove, never by a task in a delay, a file read, a request or a file write;
\* so under fair scheduling a held mutex is released, and main and a deferred
\* removal waiting for it get it.
C15_LockScope ==
    /\ [](C15_Held)
    /\ (lock # "free") ~> (lock = "free")
    /\ (disp.pc = "lock") ~> (disp.pc = "contains")
    /\ (\E r \in Running : r.pc = "sleep" /\ r.timer = 0)
          ~> (\E r \in Running : r.pc = "remove")

\* C15 witness: a deferred removal holds the mutex for its remove while a
\* delivery is in its file write
C15_Witness ==
    /\ lock = "task"
    /\ \E r \in Running : r.pc = "remove"
    /\ \E r \in Running : r.pc = "writing"

C16_Step ==
    \* an event of another kind is received and dropped: main stays at its
    \* recv, nothing is spawned, the ignore list is neither locked nor changed
    /\ disp.pc = "recv" /\ Len(queue') < Len(queue) /\ Head(queue).kind # "Create"
          => /\ disp' = disp
             /\ tasks' = tasks
             /\ lock' = lock
             /\ ignore_list' = ignore_list
             /\ files' = files
    \* main leaves its recv only with the paths of a Create event
    /\ disp.pc = "recv" /\ disp'.pc # "recv"
          => Head(queue).kind = "Create" /\ disp'.paths = Head(queue).paths
    \* and only main, working on such paths, locks for a contains and spawns
    /\ lock' = "disp" /\ lock # "disp" => disp.pc = "lock" /\ disp.paths # <<>>
    /\ BagCardinality(tasks') > BagCardinality(tasks)
          => disp.pc = "contains" /\ disp.paths # <<>>

\* C16: only a Create event makes main look at paths; an event of any other
\* kind, also for an existing .xml file, is dropped at the recv: no delivery
\* is spawned, no request is sent, the ignore list is not locked, read or
\* changed.
C16_CreationOnly ==
    /\ [][C16_Step]_vars
    /\ [](disp.pc # "recv" => disp.paths # <<>>)

\* C16 witness: main is about to receive a modification of the existing
\* a.xml, no task running
C16_Witness ==
    /\ disp.pc = "recv"
    /\ queue # <<>>
    /\ Head(queue).kind = "Modify"
    /\ Head(queue).paths = <<A_XML>>
    /\ is_file(files, A_XML)
    /\ tasks = EmptyBag

\* the request sent by the task r after its read: one request, of the
\* configured verb, its payload with the given content
Sent(r, content) ==
    [r EXCEPT !.pc = "http", !.requests = 1, !.content = content,
              !.verb = RequestVerb(config.webhook_method)]

C17_Payload ==
    \* without include-content the file is never read and no payload has a
    \* content field
    /\ ~config.include_content
          => \A r \in Running : r.pc # "read" /\ r.content = None
    \* no request before the read has returned
    /\ \A r \in Running : r.pc = "read" => r.requests = 0 /\ r.content = None
    /\ \A r \in Running : r.pc = "http" => r.requests = 1

C17_Step ==
    \* whatever the read returns, the delivery goes on to its one request: with
    \* the data of the file, or with no content field when the read failed
    /\ \A r \in Running : r.pc = "read" /\ Steps(r)
          => /\ config.include_content
             /\ \/ tasks' = Replace(r, Sent(r, None))
                \/ /\ is_file(files, r.path)
                   /\ tasks' = Replace(r, Sent(r, files[r.path].data))
    \* without include-content the request follows the settle delay
    /\ \A r \in Running : r.pc = "settle" /\ Steps(r) /\ ~config.include_content
          => tasks' = Replace(r, Sent(r, None))

\* C17: a failed read does not end the delivery: it sends its one request with
\* no content field; with include-content unset the file is never read and
\* the payload has no content field.
C17_ReadFailureDegrades == [](C17_Payload) /\ [][C17_Step]_vars

\* C17 witness: include-content is set, the read has failed and the request
\* has been sent without content
C17_Witness ==
    /\ config.include_content
    /\ \E r \in Running :
          r.pc = "http" /\ r.content = None /\ r.requests = 1 /\ is_file(files, r.path)

\* C18 as stated: every path in the ignore list has a delivery that inserted
\* it and has not finished its file write, or a deferred removal of it that
\* has not fired.
C18_CoveredAsStated ==
    \A p \in ignore_list :
        \E r \in Running :
            /\ r.path = p
            /\ \/ r.inserted /\ r.pc \in {"write", "writing"}
               \/ r.pc \in {"sleep", "remove"}

\* C18: every path in the ignore list has a task left that will remove it: a
\* delivery that inserted it and has not finished its file write, a delivery
\* whose write failed and whose removal of the failure arm is still to come,
\* or a deferred removal of it that has not fired.
C18_Covered ==
    \A p \in ignore_list :
        \E r \in Running :
            /\ r.path = p
            /\ r.inserted
            /\ \/ r.pc \in {"write", "writing"}
               \/ r.pc \in {"rollback_lock", "rollback"} /\ r.wstate = "failed"
               \/ r.pc \in {"sleep", "remove"} /\ r.wstate = "ok"

\* C18 witness: the path is in the ignore list and the one task left is the
\* delivery whose write failed, waiting for the mutex to remove it
C18_Witness ==
    /\ BagCardinality(tasks) = 1
    /\ \E r \in Running : r.pc = "rollback_lock" /\ r.path \in ignore_list

\* the response calls for an overwrite: 2xx and an XML content-type
Overwriting(status, content_type) ==
    /\ status \in 200..299
    /\ \/ HasPrefix(content_type, TEXT_XML)
       \/ HasPrefix(content_type, APPLICATION_XML)

\* C19: whether a delivery overwrites is decided by the two flags and the
\* response alone: a delivery whose read failed, its request sent without
\* content, overwrites like any other on a 2xx response with an XML
\* content-type and a body that is not empty.
C19_OverwriteIgnoresContent ==
    \A r \in Running :
        \* the delivery reads the body to overwrite exactly when both flags
        \* are set and the response calls for it, content sent or not
        /\ r.pc = "http" =>
              \A status \in StatusCodes, content_type \in ContentTypes :
                  (ENABLED (/\ Response(r, status, content_type)
                            /\ \E r2 \in BagToSet(tasks') :
                                  r2.pc = "text" /\ r2.content = r.content))
                      <=> BothFlags /\ Overwriting(status, content_type)
        \* and goes on to the insert and the write exactly when the body is
        \* not empty
        /\ r.pc = "text" =>
              \A response_body \in Bodies :
                  (ENABLED (/\ Text(r, response_body)
                            /\ \E r2 \in BagToSet(tasks') :
                                  r2.pc = "insert_lock" /\ r2.content = r.content))
                      <=> response_body # EMPTY

\* C19 witness: a delivery whose read failed is writing the body of the
\* response over the file
C19_Witness ==
    \E r \in Running :
        /\ r.pc = "writing"
        /\ r.content = None
        /\ r.body = OK_BODY
        /\ BothFlags

====
